---- MODULE Spec2Model ----
(***************************************************************************)
(* Model of the blank-field detector (scripts/get_blank_field_coordinates)  *)
(* and of the interactive field editor (scripts/pdf_field_editor).          *)
(*                                                                          *)
(* Normalized coordinates are held in hundredths of the page (One = 1.00).  *)
(* A text is a sequence of characters; the characters the code looks at are *)
(* written "dono" (U+6BBF), "sama" (U+69D8), "on" (U+5FA1), "chuu"          *)
(* (U+4E2D), "rei" (U+4EE4), "wa" (U+548C), "nen" (U+5E74), "gatsu"         *)
(* (U+6708), "nichi" (U+65E5); "7" stands for any other printing character  *)
(* and " " for white space.                                                 *)
(***************************************************************************)
EXTENDS Integers, Sequences, FiniteSets, TLC

VARIABLES
    \* ---- find_blank_field_coordinates(document) ----
    page_size,      \* page.dimension of the page being scanned
    scanned,        \* the prefix of page.tokens the loop has consumed
    results,        \* the local dict `results`
    pc,             \* "scan" | "returned" | "raised"
    all_results,    \* main(): the coordinates of the documents checked so far
    \* ---- PDFFieldEditor ----
    coordinates_data,   \* the documents loaded from blank_field_coordinates.json
    current_doc_index,
    pdf_content,        \* None, or the bytes downloaded for a document
    page_pixmap,        \* None, or the page image rendered from a document
    dest_input, year_input, month_input, day_input,         \* QLineEdit texts
    dest_x_spin, dest_y_spin, date_x_spin, date_y_spin,     \* QSpinBox values
    dest_x_slider, dest_y_slider, date_x_slider, date_y_slider,
    dest_offset_x, dest_offset_y, date_offset_x, date_offset_y,
    preview_label,      \* what the preview shows: a message or a drawing
    written,            \* the text insertions of the PDF the last handler saved,
                        \* None when the last handler saved nothing
    loads,              \* the load_pdf calls suspended in processEvents,
                        \* outermost first: the index each one is loading
    \* ---- gemini_checker.download_file_from_url(url) ----
    current_url,        \* the URL the next request goes to
    redirects_followed,
    download_pc,        \* "idle" | "request" | "returned" | the exception raised
    requested,          \* the URLs requests.get was called on, in order
    response,           \* the response of the last request
    validated,          \* the URLs _validate_external_url has returned
    \* ---- gemini_checker.get_gemini_model() in the server's threads ----
    _model,             \* the module global
    handler_pc,         \* per request handler: its position in the function
    handler_model,      \* per request handler: the instance it got
    constructed,        \* the instances genai.GenerativeModel has built
    \* ---- SpreadsheetOps.update_importrange_refs(spreadsheet_id) ----
    formulas,           \* sheet title -> the formulas of its cells
    entered,            \* the formulas before the update
    pattern_index,      \* the patterns of the loop already replaced
    count               \* the local `count`

detectorVars == <<page_size, scanned, results, pc, all_results>>

inputVars == <<dest_input, year_input, month_input, day_input>>
destOffsetVars == <<dest_x_spin, dest_y_spin, dest_x_slider, dest_y_slider,
                    dest_offset_x, dest_offset_y>>
dateOffsetVars == <<date_x_spin, date_y_spin, date_x_slider, date_y_slider,
                    date_offset_x, date_offset_y>>
editorVars == <<coordinates_data, current_doc_index, pdf_content, page_pixmap,
                inputVars, destOffsetVars, dateOffsetVars, preview_label,
                written, loads>>

downloadVars == <<current_url, redirects_followed, download_pc, requested,
                  response, validated>>
geminiVars == <<_model, handler_pc, handler_model, constructed>>
sheetVars == <<formulas, entered, pattern_index, count>>
serviceVars == <<downloadVars, geminiVars, sheetVars>>

vars == <<detectorVars, editorVars, serviceVars>>

\* Python's None; every optional value of the model is None or a record.
None == [none |-> TRUE]

\* 1.0 in normalized page units (hundredths).
One == 100

\* Longest token stream the general detector specification scans.
MaxTokens == 3

----------------------------------------------------------------------------
\* Texts

\* str.strip(): drop leading and trailing white space.
RECURSIVE lstrip(_)
lstrip(t) ==
    IF t # <<>> /\ Head(t) = " " THEN lstrip(Tail(t)) ELSE t

RECURSIVE rstrip(_)
rstrip(t) ==
    IF t # <<>> /\ t[Len(t)] = " " THEN rstrip(SubSeq(t, 1, Len(t) - 1)) ELSE t

strip(t) == rstrip(lstrip(t))

\* str.endswith(suffix)
endswith(t, suffix) ==
    /\ Len(t) >= Len(suffix)
    /\ SubSeq(t, Len(t) - Len(suffix) + 1, Len(t)) = suffix

\* `sub in t` for strings
contains(t, sub) ==
    \E i \in 1..(Len(t) - Len(sub) + 1) : SubSeq(t, i, i + Len(sub) - 1) = sub

DONO == <<"dono">>
SAMA == <<"sama">>
ON == <<"on">>
CHUU == <<"chuu">>
ONCHUU == <<"on", "chuu">>
REI == <<"rei">>
REIWA == <<"rei", "wa">>
NEN == <<"nen">>
GATSU == <<"gatsu">>
NICHI == <<"nichi">>

----------------------------------------------------------------------------
\* Boxes and OCR primitives

\* The polygon Document AI reports for an upright box: top-left, top-right,
\* bottom-right, bottom-left.
Quad(x, y, w, h) == << <<x, y>>, <<x + w, y>>, <<x + w, y + h>>, <<x, y + h>> >>

\* A primitive of page.tokens: raw text and bounding_poly.normalized_vertices.
Prim(text, vertices) == [text |-> text, vertices |-> vertices]

\* int(): truncation toward zero of num/den (den > 0).
IntOf(num, den) == IF num >= 0 THEN num \div den ELSE 0 - ((0 - num) \div den)

\* max(0, v)
Max0(v) == IF v > 0 THEN v ELSE 0

\* The x offset of the destination fill position left of its marker (0.20)
\* and its suggested width (0.18).
DEST_MARGIN == 20
SUGGESTED_WIDTH == 18

----------------------------------------------------------------------------
\* find_blank_field_coordinates: the body of the token loop

\* The dict `coords` built for a token with at least three vertices.
Coords(token_text, vertices, page) ==
    [text |-> token_text,
     page |-> 1,
     normalized |-> [x |-> vertices[1][1],
                     y |-> vertices[1][2],
                     width |-> vertices[3][1] - vertices[1][1],
                     height |-> vertices[3][2] - vertices[1][2]],
     pixels |-> [x |-> IntOf(vertices[1][1] * page.width, One),
                 y |-> IntOf(vertices[1][2] * page.height, One),
                 width |-> IntOf((vertices[3][1] - vertices[1][1]) * page.width, One),
                 height |-> IntOf((vertices[3][2] - vertices[1][2]) * page.height, One)],
     page_size |-> page]

\* The outer test of the destination detection.
DestOuterMatch(token_text) ==
    \/ token_text \in {DONO, ON, CHUU, SAMA, ONCHUU}
    \/ endswith(token_text, DONO)
    \/ endswith(token_text, ONCHUU)
    \/ endswith(token_text, SAMA)

\* The inner test: the tokens whose left side is the fill position.
DestInnerMatch(token_text) ==
    \/ token_text \in {ON, DONO, SAMA}
    \/ endswith(token_text, DONO)
    \/ endswith(token_text, SAMA)

\* The fill position without the clamp at the page edge.
DestFillXUnclamped(coords) == coords.normalized.x - DEST_MARGIN

DestFillX(coords) == Max0(coords.normalized.x - DEST_MARGIN)

\* results['destination'] = {...}
DestinationOf(token_text, coords) ==
    [marker |-> token_text,
     marker_coords |-> coords,
     fill_position |-> [x |-> DestFillX(coords),
                        y |-> coords.normalized.y,
                        suggested_width |-> SUGGESTED_WIDTH]]

DetectDestination(res, token_text, coords) ==
    IF DestOuterMatch(token_text) /\ DestInnerMatch(token_text)
    THEN [res EXCEPT !.destination = DestinationOf(token_text, coords)]
    ELSE res

\* The era marker test.
EraMatch(token_text) == contains(token_text, REIWA) \/ token_text = REI

\* The year region opened at the era marker itself, not to its right.
DateOfAtMarker(coords) ==
    [marker |-> REIWA,
     marker_coords |-> coords,
     fill_positions |-> [year |-> [x |-> coords.normalized.x,
                                   y |-> coords.normalized.y],
                         month |-> None,
                         day |-> None]]

\* results['date'] = {...}
DateOf(coords) ==
    [marker |-> REIWA,
     marker_coords |-> coords,
     fill_positions |-> [year |-> [x |-> coords.normalized.x + coords.normalized.width,
                                   y |-> coords.normalized.y],
                         month |-> None,
                         day |-> None]]

DetectEra(res, token_text, coords) ==
    IF EraMatch(token_text) THEN [res EXCEPT !.date = DateOf(coords)] ELSE res

\* d[key] = value on a dict held as a record: the key is added or overwritten.
SetWidth(pos, width) ==
    [k \in (DOMAIN pos) \cup {"width"} |-> IF k = "width" THEN width ELSE pos[k]]

\* The position opened at the unit token itself, not to its right.
RightOfAtToken(coords) ==
    [x |-> coords.normalized.x,
     y |-> coords.normalized.y]

\* The position opened to the right of a unit token.
RightOf(coords) ==
    [x |-> coords.normalized.x + coords.normalized.width,
     y |-> coords.normalized.y]

DetectYearUnit(res, token_text, coords) ==
    IF res.date # None /\ token_text = NEN
    THEN [res EXCEPT
            !.date.fill_positions.year =
                SetWidth(@, coords.normalized.x - res.date.fill_positions.year.x),
            !.date.fill_positions.month = RightOf(coords)]
    ELSE res

DetectMonthUnit(res, token_text, coords) ==
    IF res.date # None /\ token_text = GATSU /\ res.date.fill_positions.month # None
    THEN [res EXCEPT
            !.date.fill_positions.month =
                SetWidth(@, coords.normalized.x - res.date.fill_positions.month.x),
            !.date.fill_positions.day = RightOf(coords)]
    ELSE res

DetectDayUnit(res, token_text, coords) ==
    IF res.date # None /\ token_text = NICHI /\ res.date.fill_positions.day # None
    THEN [res EXCEPT
            !.date.fill_positions.day =
                SetWidth(@, coords.normalized.x - res.date.fill_positions.day.x)]
    ELSE res

\* One iteration of `for token in page.tokens`.  The outcome is "continue"
\* (token skipped), "raise" (vertices[2] on a polygon of one or two vertices:
\* IndexError) or "ok".
LoopBody(res, token, page) ==
    LET token_text == strip(token.text)
        vertices == token.vertices
    IN  IF token_text = <<>> THEN [outcome |-> "continue", results |-> res]
        ELSE IF vertices = <<>> THEN [outcome |-> "continue", results |-> res]
        ELSE IF Len(vertices) < 3 THEN [outcome |-> "raise", results |-> res]
        ELSE LET coords == Coords(token_text, vertices, page)
                 r0 == [res EXCEPT !.all_tokens = Append(@, coords)]
                 r1 == DetectDestination(r0, token_text, coords)
                 r2 == DetectEra(r1, token_text, coords)
                 r3 == DetectYearUnit(r2, token_text, coords)
                 r4 == DetectMonthUnit(r3, token_text, coords)
                 r5 == DetectDayUnit(r4, token_text, coords)
             IN  [outcome |-> "ok", results |-> r5]

\* The dict `results` at the start of the function.
EmptyResults == [destination |-> None, date |-> None, all_tokens |-> <<>>]

\* find_blank_field_coordinates(document) as a function of the token list:
\* the results it returns, or None when it raises.
RECURSIVE ScanFrom(_, _, _)
ScanFrom(res, tokens, page) ==
    IF tokens = <<>> THEN res
    ELSE LET b == LoopBody(res, Head(tokens), page)
         IN  IF b.outcome = "raise" THEN None
             ELSE ScanFrom(b.results, Tail(tokens), page)

find_blank_field_coordinates(tokens, page) == ScanFrom(EmptyResults, tokens, page)

----------------------------------------------------------------------------
\* document_ai_ocr.process_pdf: the token extraction of the OCR script

\* min() and max() of a non-empty list.
SeqMin(xs) == CHOOSE m \in {xs[i] : i \in DOMAIN xs} : \A i \in DOMAIN xs : m <= xs[i]
SeqMax(xs) == CHOOSE m \in {xs[i] : i \in DOMAIN xs} : \A i \in DOMAIN xs : m >= xs[i]

\* get_text_from_layout: the text of the token's segments, stripped.
get_text_from_layout(text) == strip(text)

\* The dict token_data of a token with at least four vertices.
TokenData(token, page) ==
    LET x_coords == [i \in DOMAIN token.vertices |-> token.vertices[i][1]]
        y_coords == [i \in DOMAIN token.vertices |-> token.vertices[i][2]]
        min_x == SeqMin(x_coords)
        min_y == SeqMin(y_coords)
        max_x == SeqMax(x_coords)
        max_y == SeqMax(y_coords)
    IN  [text |-> get_text_from_layout(token.text),
         normalized |-> [x |-> min_x, y |-> min_y,
                         width |-> max_x - min_x, height |-> max_y - min_y],
         pixels |-> [x |-> IntOf(min_x * page.width, One),
                     y |-> IntOf(min_y * page.height, One),
                     width |-> IntOf((max_x - min_x) * page.width, One),
                     height |-> IntOf((max_y - min_y) * page.height, One)]]

\* page_data["tokens"] of one page: tokens of fewer than four vertices are
\* left out.
RECURSIVE process_pdf(_, _)
process_pdf(tokens, page) ==
    IF tokens = <<>> THEN <<>>
    ELSE (IF Len(Head(tokens).vertices) >= 4
          THEN <<TokenData(Head(tokens), page)>> ELSE <<>>)
            \o process_pdf(Tail(tokens), page)

----------------------------------------------------------------------------
\* Inputs of the detector

\* page.dimension values: a scanned A4 page and a PDF page in points.
PageSizes == {[width |-> 1681, height |-> 2378], [width |-> 595, height |-> 842]}

\* Token boxes <<x, y, width, height>>.
BoxA == <<10, 20, 5, 3>>
BoxB == <<60, 20, 5, 3>>
BoxC == <<60, 40, 40, 3>>
QuadOf(b) == Quad(b[1], b[2], b[3], b[4])

\* A polygon cut down to its first n vertices (a malformed primitive).
Cut(vertices, n) == SubSeq(vertices, 1, n)

DatePrimitives ==
    {Prim(t, QuadOf(b)) : t \in {REI, NEN, GATSU, NICHI}, b \in {BoxA, BoxB}}
        \cup {Prim(REIWA, QuadOf(BoxC))}

AddresseePrimitives ==
    {Prim(DONO, QuadOf(BoxA)), Prim(SAMA, QuadOf(BoxB)), Prim(ON, QuadOf(BoxB)),
     Prim(CHUU, QuadOf(BoxB)), Prim(ONCHUU, QuadOf(BoxA)),
     Prim(<<"7", "dono">>, QuadOf(BoxC))}

OtherPrimitives ==
    {Prim(<<"7">>, QuadOf(BoxA)), Prim(<<" ">>, QuadOf(BoxA)),
     Prim(<<" ", "nen">>, QuadOf(BoxC))}

MalformedPrimitives ==
    {Prim(NEN, Cut(QuadOf(BoxA), n)) : n \in 0..3}

\* The polygon of a token printed upside down: Document AI lists the
\* vertices from the token's own top-left corner, the bottom-right one on
\* the page.
Rotated(vertices) == <<vertices[3], vertices[4], vertices[1], vertices[2]>>

RotatedPrimitives == {Prim(<<"7">>, Rotated(QuadOf(BoxB)))}

Primitives ==
    DatePrimitives \cup AddresseePrimitives \cup OtherPrimitives
        \cup MalformedPrimitives \cup RotatedPrimitives

----------------------------------------------------------------------------
\* The detector as a state machine over page.tokens

\* The scripts of the checking service and of the spreadsheet operations
\* before they are started.
NoService ==
    /\ current_url = None
    /\ redirects_followed = 0
    /\ download_pc = "idle"
    /\ requested = <<>>
    /\ response = None
    /\ validated = {}
    /\ _model = None
    /\ handler_pc = <<>>
    /\ handler_model = <<>>
    /\ constructed = 0
    /\ formulas = <<>>
    /\ entered = <<>>
    /\ pattern_index = 0
    /\ count = 0

\* The editor before it is constructed (the detector runs as a script of
\* its own).
NoEditor ==
    /\ coordinates_data = <<>>
    /\ current_doc_index = 0
    /\ pdf_content = None
    /\ page_pixmap = None
    /\ dest_input = "" /\ year_input = "" /\ month_input = "" /\ day_input = ""
    /\ dest_x_spin = 0 /\ dest_y_spin = 0 /\ date_x_spin = 0 /\ date_y_spin = 0
    /\ dest_x_slider = 0 /\ dest_y_slider = 0
    /\ date_x_slider = 0 /\ date_y_slider = 0
    /\ dest_offset_x = 0 /\ dest_offset_y = 0
    /\ date_offset_x = 0 /\ date_offset_y = 0
    /\ preview_label = None
    /\ written = None
    /\ loads = <<>>

Init ==
    /\ page_size \in PageSizes
    /\ scanned = <<>>
    /\ results = EmptyResults
    /\ pc = "scan"
    /\ all_results = <<>>
    /\ NoEditor
    /\ NoService

\* The loop takes the next token of the page.
Scan(token) ==
    /\ pc = "scan"
    /\ LET b == LoopBody(results, token, page_size)
       IN  /\ results' = b.results
           /\ pc' = IF b.outcome = "raise" THEN "raised" ELSE "scan"
    /\ scanned' = Append(scanned, token)
    /\ UNCHANGED <<page_size, all_results, editorVars, serviceVars>>

\* page.tokens is exhausted: `return results`.
Return ==
    /\ pc = "scan"
    /\ pc' = "returned"
    /\ UNCHANGED <<page_size, scanned, results, all_results, editorVars, serviceVars>>

ScanPrimitive ==
    /\ Len(scanned) < MaxTokens
    /\ \E token \in Primitives : Scan(token)

Next == ScanPrimitive \/ Return

Spec == Init /\ [][Next]_vars

----------------------------------------------------------------------------
\* main(): one run checks the documents of the contractors one after the
\* other and collects their coordinates in all_results.

\* Number of documents of one run, and the longest token stream of each.
MaxDocs == 2
MaxBatchTokens == 2

BatchPrimitives ==
    {Prim(REI, QuadOf(BoxA)), Prim(NEN, QuadOf(BoxB)), Prim(DONO, QuadOf(BoxA)),
     Prim(NEN, Cut(QuadOf(BoxA), 1))}

\* A detector that goes on with the dict of its previous call.
StaleResults(previous) == previous

\* Each call of find_blank_field_coordinates builds its own dict `results`,
\* whatever the previous call returned.
FreshResults(previous) == EmptyResults

ScanBatch ==
    /\ Len(scanned) < MaxBatchTokens
    /\ \E token \in BatchPrimitives : Scan(token)

\* The loop of main() goes to the next document: the coordinates returned
\* are appended to all_results, an exception is printed and dropped.
NextDocument ==
    /\ pc \in {"returned", "raised"}
    /\ Len(all_results) + 1 < MaxDocs
    /\ all_results' =
          IF pc = "returned" THEN Append(all_results, [coordinates |-> results])
          ELSE all_results
    /\ scanned' = <<>>
    /\ results' = FreshResults(results)
    /\ pc' = "scan"
    /\ UNCHANGED <<page_size, editorVars, serviceVars>>

InitBatch ==
    /\ page_size = [width |-> 595, height |-> 842]
    /\ scanned = <<>>
    /\ results = EmptyResults
    /\ pc = "scan"
    /\ all_results = <<>>
    /\ NoEditor
    /\ NoService

NextBatch == ScanBatch \/ Return \/ NextDocument

SpecBatch == InitBatch /\ [][NextBatch]_vars

----------------------------------------------------------------------------
\* Scenario A: the stream rei, wa, <year>, nen, <month>, gatsu, <day>, nichi
\* with strictly increasing x, positive widths and one constant y.

\* Number of x grid positions (tenths of the page) the scenario draws from.
GridN == 9

ScenarioATexts ==
    <<REI, <<"wa">>, <<"7">>, NEN, <<"1">>, GATSU, <<"1", "0">>, NICHI>>

ScenarioAPrimitives(k) ==
    {Prim(ScenarioATexts[k], Quad(10 * i, y, w, 3)) :
        i \in 0..(GridN - 1), y \in {20, 40}, w \in {5, 30}}

ScanScenarioA ==
    /\ Len(scanned) < Len(ScenarioATexts)
    /\ \E token \in ScenarioAPrimitives(Len(scanned) + 1) :
          /\ scanned # <<>> =>
                LET last == scanned[Len(scanned)]
                IN  /\ token.vertices[1][1] > last.vertices[1][1]
                    /\ token.vertices[1][2] = last.vertices[1][2]
          /\ Scan(token)

InitScenarioA ==
    /\ page_size = [width |-> 1681, height |-> 2378]
    /\ scanned = <<>>
    /\ results = EmptyResults
    /\ pc = "scan"
    /\ all_results = <<>>
    /\ NoEditor
    /\ NoService

SpecScenarioA == InitScenarioA /\ [][ScanScenarioA \/ Return]_vars

----------------------------------------------------------------------------
\* Date blocks: streams of era markers and unit tokens that begin with an era
\* marker.

\* Longest stream of a date block.
MaxDateTokens == 5

DateStreamPrimitives ==
    {Prim(REI, QuadOf(BoxA)), Prim(REIWA, QuadOf(BoxC))}
        \cup {Prim(t, QuadOf(b)) : t \in {NEN, GATSU, NICHI}, b \in {BoxA, BoxC}}

ScanDate ==
    /\ Len(scanned) < MaxDateTokens
    /\ \E token \in DateStreamPrimitives :
          /\ scanned = <<>> => EraMatch(strip(token.text))
          /\ Scan(token)

SpecDate == InitScenarioA /\ [][ScanDate \/ Return]_vars

----------------------------------------------------------------------------
\* PDFFieldEditor: coordinate transforms

\* fitz.Matrix(2.0, 2.0) in render_pdf_page, `scale = 2.0` in update_preview
\* and the `/ 2` of save_pdf.
RENDER_SCALE == 2
PREVIEW_SCALE == 2
SAVE_DIVISOR == 2

\* Pixel quantities are rationals; they are held as numerators over Den.
Den == 2 * One
Px(v) == v * Den

\* fill_pos[axis] * page_size[axis], for a normalized value n.
NormPx(n, size) == n * size * (Den \div One)

\* update_preview: x = pos * page_size * scale + offset
PreviewPos(n, size, offset) == NormPx(n, size) * PREVIEW_SCALE + Px(offset)

\* update_preview: the y of the month box, on the year's row when y_raw is
\* beyond the page.
PreviewMonthY(month_pos, year_pos, page, offset) ==
    LET y_raw == NormPx(month_pos.y, page.height) * PREVIEW_SCALE
    IN  IF y_raw > Px(page.height) * PREVIEW_SCALE
        THEN NormPx(year_pos.y, page.height) * PREVIEW_SCALE + Px(offset)
        ELSE y_raw + Px(offset)

\* save_pdf without the division of the offset.
SavePosUndivided(n, size, offset) == NormPx(n, size) + Px(offset)

\* save_pdf: x = pos * page_size + offset / 2
SavePos(n, size, offset) == NormPx(n, size) + Px(offset) \div SAVE_DIVISOR

\* save_pdf adding the offset to the month's y without dividing it.
SaveMonthYUndivided(month_pos, year_pos, page, offset) ==
    LET y0 == NormPx(month_pos.y, page.height)
        y1 == IF y0 > Px(page.height)
              THEN (IF year_pos # None THEN NormPx(year_pos.y, page.height)
                                      ELSE Px(400))
              ELSE y0
    IN  y1 + Px(offset)

\* save_pdf: the y of the month text.
SaveMonthY(month_pos, year_pos, page, offset) ==
    LET y0 == NormPx(month_pos.y, page.height)
        y1 == IF y0 > Px(page.height)
              THEN (IF year_pos # None THEN NormPx(year_pos.y, page.height)
                                      ELSE Px(400))
              ELSE y0
    IN  y1 + Px(offset) \div SAVE_DIVISOR

\* What update_preview paints for one field at (x, y): the box, and the text
\* or its placeholder.
Painted(x, y, text, placeholder) ==
    [x |-> x, y |-> y,
     rect_at |-> <<IntOf(x, Den), IntOf(y - Px(10), Den)>>,
     text_at |-> <<IntOf(x + Px(10), Den), IntOf(y + Px(25), Den)>>,
     text |-> IF text # "" THEN text ELSE placeholder]

\* What save_pdf inserts for one field at (x, y).
Inserted(x, y, text) ==
    [x |-> x, y |-> y, point |-> <<x + Px(5), y + Px(15)>>, text |-> text]

\* page_size of a marker, with the default of the code.
PageSizeOf(marker_coords) ==
    IF "page_size" \in DOMAIN marker_coords THEN marker_coords.page_size
    ELSE [width |-> 1681, height |-> 2378]

\* update_preview: the drawing made on a copy of page_pixmap.  inputs is the
\* record of the four texts, dest_off and date_off the two offset pairs.
Drawing(pixmap, coords, inputs, dest_off, date_off) ==
    LET hasDest == coords.destination # None
        hasDate == coords.date # None
        fp == coords.date.fill_positions
        fields ==
            (IF hasDest THEN {"destination"} ELSE {})
            \cup (IF hasDate THEN {"year"} ELSE {})
            \cup (IF hasDate /\ fp.month # None THEN {"month"} ELSE {})
            \cup (IF hasDate /\ fp.day # None THEN {"day"} ELSE {})
        dpage == PageSizeOf(coords.destination.marker_coords)
        page == PageSizeOf(coords.date.marker_coords)
    IN  [pixmap |-> pixmap,
         fields |-> [f \in fields |->
            CASE f = "destination" ->
                    Painted(PreviewPos(coords.destination.fill_position.x, dpage.width, dest_off[1]),
                            PreviewPos(coords.destination.fill_position.y, dpage.height, dest_off[2]),
                            inputs.dest, "(empty)")
              [] f = "year" ->
                    Painted(PreviewPos(fp.year.x, page.width, date_off[1]),
                            PreviewPos(fp.year.y, page.height, date_off[2]),
                            inputs.year, "o")
              [] f = "month" ->
                    Painted(PreviewPos(fp.month.x, page.width, date_off[1]),
                            PreviewMonthY(fp.month, fp.year, page, date_off[2]),
                            inputs.month, "o")
              [] f = "day" ->
                    Painted(PreviewPos(fp.day.x, page.width, date_off[1]),
                            PreviewPos(fp.day.y, page.height, date_off[2]),
                            inputs.day, "o")]]

\* update_preview: nothing is drawn while there is no page image.
update_preview(label, pixmap, coords, inputs, dest_off, date_off) ==
    IF pixmap = None THEN label
    ELSE Drawing(pixmap, coords, inputs, dest_off, date_off)

\* save_pdf: the texts inserted into the copy of the PDF.
Inserts(coords, inputs, dest_off, date_off) ==
    LET hasDest == inputs.dest # "" /\ coords.destination # None
        hasDate == coords.date # None
        fp == coords.date.fill_positions
        fields ==
            (IF hasDest THEN {"destination"} ELSE {})
            \cup (IF hasDate /\ inputs.year # "" THEN {"year"} ELSE {})
            \cup (IF hasDate /\ inputs.month # "" /\ fp.month # None THEN {"month"} ELSE {})
            \cup (IF hasDate /\ inputs.day # "" /\ fp.day # None THEN {"day"} ELSE {})
        dpage == PageSizeOf(coords.destination.marker_coords)
        page == PageSizeOf(coords.date.marker_coords)
    IN  [f \in fields |->
            CASE f = "destination" ->
                    Inserted(SavePos(coords.destination.fill_position.x, dpage.width, dest_off[1]),
                             SavePos(coords.destination.fill_position.y, dpage.height, dest_off[2]),
                             inputs.dest)
              [] f = "year" ->
                    Inserted(SavePos(fp.year.x, page.width, date_off[1]),
                             SavePos(fp.year.y, page.height, date_off[2]),
                             inputs.year)
              [] f = "month" ->
                    Inserted(SavePos(fp.month.x, page.width, date_off[1]),
                             SaveMonthY(fp.month, fp.year, page, date_off[2]),
                             inputs.month)
              [] f = "day" ->
                    Inserted(SavePos(fp.day.x, page.width, date_off[1]),
                             SavePos(fp.day.y, page.height, date_off[2]),
                             inputs.day)]

----------------------------------------------------------------------------
\* PDFFieldEditor: the session

\* Deepest nesting of load_pdf calls suspended in processEvents.
MaxNesting == 2

\* Values of the texts and of the offset controls the user enters.
Texts == {"", "t"}
OffsetValues(axis) == IF axis = "x" THEN {0, 7} ELSE {-200, 0}

Bytes(index) == [doc |-> index]
EmptyBytes == [empty |-> TRUE]
Pixmap(index) == [doc |-> index]
Message(text) == [message |-> text]

\* `if not self.pdf_content`
Truthy(content) == content # None /\ content # EmptyBytes

\* Token lists of scanned forms the coordinates file is made from.
StreamFull ==
    <<Prim(<<"7", "dono">>, Quad(60, 10, 5, 3)), Prim(REI, Quad(50, 20, 5, 3)),
      Prim(NEN, Quad(62, 20, 3, 3)), Prim(GATSU, Quad(72, 20, 3, 3)),
      Prim(NICHI, Quad(82, 20, 3, 3))>>

StreamSkewed ==
    <<Prim(ON, Quad(15, 10, 5, 3)), Prim(CHUU, Quad(20, 10, 5, 3)),
      Prim(REI, Quad(50, 20, 5, 3)), Prim(NEN, Quad(62, 120, 3, 3)),
      Prim(GATSU, Quad(72, 121, 3, 3)), Prim(NICHI, Quad(82, 20, 3, 3))>>

StreamPartial == <<Prim(REIWA, Quad(50, 20, 10, 3)), Prim(NEN, Quad(70, 21, 3, 3))>>

\* A form whose unit tokens were read on a lower row of the page than its
\* era marker.
StreamShifted ==
    <<Prim(REI, Quad(50, 20, 5, 3)), Prim(NEN, Quad(62, 60, 3, 3)),
      Prim(GATSU, Quad(72, 60, 3, 3)), Prim(NICHI, Quad(82, 60, 3, 3))>>

\* An entry of blank_field_coordinates.json as main() of the detector
\* writes it; has_file_id tells whether extract_file_id(url) finds an id.
DocEntry(name, has_file_id, stream, page) ==
    [contractor |-> name, has_file_id |-> has_file_id,
     coordinates |-> find_blank_field_coordinates(stream, page)]

\* The coordinates files the editor is started on.
DocLists ==
    {<<DocEntry("full", TRUE, StreamFull, [width |-> 1681, height |-> 2378]),
       DocEntry("skewed", TRUE, StreamSkewed, [width |-> 595, height |-> 842])>>,
     <<DocEntry("partial", TRUE, StreamPartial, [width |-> 595, height |-> 842]),
       DocEntry("none", FALSE, <<>>, [width |-> 595, height |-> 842])>>}

\* Coordinates files of a single document.
SingleDocLists == {<<l[i]>> : l \in DocLists, i \in 1..2}

\* The single-document files the transforms are exercised on.
TransformDocLists ==
    SingleDocLists \cup
        {<<DocEntry("shifted", TRUE, StreamShifted, [width |-> 595, height |-> 842])>>}

\* The outcomes of load_pdf after its processEvents call.
LoadOutcomes(doc) ==
    IF doc.has_file_id THEN {"download_error", "empty", "render_error", "ok"}
    ELSE {"no_file_id"}

\* load_pdf from the download on, with render_pdf_page: the new pdf_content,
\* page_pixmap and preview_label.
LoadResult(outcome, index, content, pixmap, label, coords, inputs, dest_off, date_off) ==
    [pdf_content |->
        IF outcome \in {"ok", "render_error"} THEN Bytes(index)
        ELSE IF outcome = "empty" THEN EmptyBytes ELSE content,
     page_pixmap |-> IF outcome = "ok" THEN Pixmap(index) ELSE pixmap,
     preview_label |->
        IF outcome = "ok"
        THEN update_preview(label, Pixmap(index), coords, inputs, dest_off, date_off)
        ELSE IF outcome = "empty" THEN label ELSE Message(outcome)]

CurrentCoords == coordinates_data[current_doc_index + 1].coordinates
Inputs == [dest |-> dest_input, year |-> year_input, month |-> month_input,
           day |-> day_input]
NoInputs == [dest |-> "", year |-> "", month |-> "", day |-> ""]

\* The state after __init__ on one of the coordinates files: load_coordinates
\* has selected document 0 and its load has ended in one of its outcomes.
InitEditorOn(files) ==
    /\ page_size \in {[width |-> 595, height |-> 842]}
    /\ scanned = <<>>
    /\ results = EmptyResults
    /\ pc = "returned"
    /\ all_results = <<>>
    /\ coordinates_data \in files
    /\ current_doc_index = 0
    /\ dest_input = "" /\ year_input = "" /\ month_input = "" /\ day_input = ""
    /\ dest_x_spin = 0 /\ dest_y_spin = 0 /\ date_x_spin = 0 /\ date_y_spin = 0
    /\ dest_x_slider = 0 /\ dest_y_slider = 0
    /\ date_x_slider = 0 /\ date_y_slider = 0
    /\ dest_offset_x = 0 /\ dest_offset_y = 0
    /\ date_offset_x = 0 /\ date_offset_y = 0
    /\ \E outcome \in LoadOutcomes(coordinates_data[1]) :
          LET r == LoadResult(outcome, 0, None, None, Message("loading"),
                              coordinates_data[1].coordinates, NoInputs,
                              <<0, 0>>, <<0, 0>>)
          IN  /\ pdf_content = r.pdf_content
              /\ page_pixmap = r.page_pixmap
              /\ preview_label = r.preview_label
    /\ written = None
    /\ loads = <<>>
    /\ NoService

InitEditor == InitEditorOn(DocLists)

\* The offset attributes had setValue(0) not run on_*_offset_changed.
ResetOffsetsSilent(spin_x, spin_y, off_x, off_y) == <<off_x, off_y>>

\* The offset attributes after x_spin.setValue(0); y_spin.setValue(0): each
\* call that changes its spin box runs on_*_offset_changed, which copies both
\* spin boxes.
ResetOffsets(spin_x, spin_y, off_x, off_y) ==
    LET a == IF spin_x # 0 THEN <<0, spin_y>> ELSE <<off_x, off_y>>
    IN  IF spin_y # 0 THEN <<0, 0>> ELSE a

\* on_doc_changed(index) up to the processEvents call of load_pdf.
on_doc_changed(index) ==
    /\ ~(index < 0 \/ index >= Len(coordinates_data))
    /\ index # current_doc_index
    /\ Len(loads) < MaxNesting
    /\ current_doc_index' = index
    /\ dest_input' = "" /\ year_input' = "" /\ month_input' = "" /\ day_input' = ""
    /\ dest_x_spin' = 0 /\ dest_y_spin' = 0 /\ date_x_spin' = 0 /\ date_y_spin' = 0
    /\ dest_x_slider' = 0 /\ dest_y_slider' = 0
    /\ date_x_slider' = 0 /\ date_y_slider' = 0
    /\ dest_offset_x' = ResetOffsets(dest_x_spin, dest_y_spin, dest_offset_x, dest_offset_y)[1]
    /\ dest_offset_y' = ResetOffsets(dest_x_spin, dest_y_spin, dest_offset_x, dest_offset_y)[2]
    /\ date_offset_x' = ResetOffsets(date_x_spin, date_y_spin, date_offset_x, date_offset_y)[1]
    /\ date_offset_y' = ResetOffsets(date_x_spin, date_y_spin, date_offset_x, date_offset_y)[2]
    /\ preview_label' = Message("loading")
    /\ loads' = Append(loads, index)
    /\ written' = None
    /\ UNCHANGED <<detectorVars, serviceVars, coordinates_data, pdf_content, page_pixmap>>

OnDocChanged == \E index \in 0..(Len(coordinates_data) - 1) : on_doc_changed(index)

\* processEvents returns in the innermost suspended load_pdf, which runs to
\* its end.
LoadPdfResume ==
    /\ loads # <<>>
    /\ LET index == loads[Len(loads)]
       IN  \E outcome \in LoadOutcomes(coordinates_data[index + 1]) :
              LET r == LoadResult(outcome, index, pdf_content, page_pixmap,
                                  preview_label, CurrentCoords, Inputs,
                                  <<dest_offset_x, dest_offset_y>>,
                                  <<date_offset_x, date_offset_y>>)
              IN  /\ pdf_content' = r.pdf_content
                  /\ page_pixmap' = r.page_pixmap
                  /\ preview_label' = r.preview_label
    /\ loads' = SubSeq(loads, 1, Len(loads) - 1)
    /\ written' = None
    /\ UNCHANGED <<detectorVars, serviceVars, coordinates_data, current_doc_index, inputVars,
                   destOffsetVars, dateOffsetVars>>

\* A textChanged handler that drops the loaded PDF and its page image.
TextChangedReloading ==
    \E f \in {"dest", "year", "month", "day"}, t \in Texts :
        /\ Inputs[f] # t
        /\ dest_input' = IF f = "dest" THEN t ELSE dest_input
        /\ year_input' = IF f = "year" THEN t ELSE year_input
        /\ month_input' = IF f = "month" THEN t ELSE month_input
        /\ day_input' = IF f = "day" THEN t ELSE day_input
        /\ pdf_content' = None
        /\ page_pixmap' = None
        /\ preview_label' = Message("loading")
        /\ written' = None
        /\ UNCHANGED <<detectorVars, serviceVars, coordinates_data, current_doc_index,
                       destOffsetVars, dateOffsetVars, loads>>

\* textChanged of one of the four line edits: update_preview.
TextChanged ==
    \E f \in {"dest", "year", "month", "day"}, t \in Texts :
        /\ Inputs[f] # t
        /\ dest_input' = IF f = "dest" THEN t ELSE dest_input
        /\ year_input' = IF f = "year" THEN t ELSE year_input
        /\ month_input' = IF f = "month" THEN t ELSE month_input
        /\ day_input' = IF f = "day" THEN t ELSE day_input
        /\ preview_label' =
              update_preview(preview_label, page_pixmap, CurrentCoords,
                             [Inputs EXCEPT ![f] = t],
                             <<dest_offset_x, dest_offset_y>>,
                             <<date_offset_x, date_offset_y>>)
        /\ written' = None
        /\ UNCHANGED <<detectorVars, serviceVars, coordinates_data, current_doc_index,
                       pdf_content, page_pixmap, destOffsetVars, dateOffsetVars,
                       loads>>

\* valueChanged of a destination spin box or slider: the two widgets follow
\* each other and on_dest_offset_changed copies both spin boxes.
DestOffsetChanged ==
    \E axis \in {"x", "y"} : \E v \in OffsetValues(axis) :
        /\ (IF axis = "x" THEN dest_x_spin ELSE dest_y_spin) # v
        /\ dest_x_spin' = IF axis = "x" THEN v ELSE dest_x_spin
        /\ dest_y_spin' = IF axis = "y" THEN v ELSE dest_y_spin
        /\ dest_x_slider' = IF axis = "x" THEN v ELSE dest_x_slider
        /\ dest_y_slider' = IF axis = "y" THEN v ELSE dest_y_slider
        /\ dest_offset_x' = dest_x_spin'
        /\ dest_offset_y' = dest_y_spin'
        /\ preview_label' =
              update_preview(preview_label, page_pixmap, CurrentCoords, Inputs,
                             <<dest_offset_x', dest_offset_y'>>,
                             <<date_offset_x, date_offset_y>>)
        /\ written' = None
        /\ UNCHANGED <<detectorVars, serviceVars, coordinates_data, current_doc_index,
                       pdf_content, page_pixmap, inputVars, dateOffsetVars, loads>>

\* The same for the date controls: on_date_offset_changed.
DateOffsetChanged ==
    \E axis \in {"x", "y"} : \E v \in OffsetValues(axis) :
        /\ (IF axis = "x" THEN date_x_spin ELSE date_y_spin) # v
        /\ date_x_spin' = IF axis = "x" THEN v ELSE date_x_spin
        /\ date_y_spin' = IF axis = "y" THEN v ELSE date_y_spin
        /\ date_x_slider' = IF axis = "x" THEN v ELSE date_x_slider
        /\ date_y_slider' = IF axis = "y" THEN v ELSE date_y_slider
        /\ date_offset_x' = date_x_spin'
        /\ date_offset_y' = date_y_spin'
        /\ preview_label' =
              update_preview(preview_label, page_pixmap, CurrentCoords, Inputs,
                             <<dest_offset_x, dest_offset_y>>,
                             <<date_offset_x', date_offset_y'>>)
        /\ written' = None
        /\ UNCHANGED <<detectorVars, serviceVars, coordinates_data, current_doc_index,
                       pdf_content, page_pixmap, inputVars, destOffsetVars, loads>>

\* resizeEvent: update_preview.
ResizeEvent ==
    /\ preview_label' =
          update_preview(preview_label, page_pixmap, CurrentCoords, Inputs,
                         <<dest_offset_x, dest_offset_y>>,
                         <<date_offset_x, date_offset_y>>)
    /\ written' = None
    /\ UNCHANGED <<detectorVars, serviceVars, coordinates_data, current_doc_index,
                   pdf_content, page_pixmap, inputVars, destOffsetVars,
                   dateOffsetVars, loads>>

\* save_pdf inserting the texts into pdf_content itself instead of a copy
\* opened from it.
SavePdfInPlace ==
    \E dialog \in {"confirmed", "cancelled", "error"} :
        /\ written' =
              IF Truthy(pdf_content) /\ dialog = "confirmed"
              THEN [content |-> pdf_content,
                    name |-> coordinates_data[current_doc_index + 1].contractor,
                    inserts |-> Inserts(CurrentCoords, Inputs,
                                        <<dest_offset_x, dest_offset_y>>,
                                        <<date_offset_x, date_offset_y>>)]
              ELSE None
        /\ pdf_content' =
              IF Truthy(pdf_content) /\ dialog # "error"
              THEN [edited |-> pdf_content,
                    inserts |-> Inserts(CurrentCoords, Inputs,
                                        <<dest_offset_x, dest_offset_y>>,
                                        <<date_offset_x, date_offset_y>>)]
              ELSE pdf_content
        /\ UNCHANGED <<detectorVars, serviceVars, coordinates_data, current_doc_index,
                       page_pixmap, inputVars, destOffsetVars,
                       dateOffsetVars, preview_label, loads>>

\* save_pdf: the save dialog is confirmed or cancelled, or PyMuPDF raises.
SavePdf ==
    \E dialog \in {"confirmed", "cancelled", "error"} :
        /\ written' =
              IF Truthy(pdf_content) /\ dialog = "confirmed"
              THEN [content |-> pdf_content,
                    name |-> coordinates_data[current_doc_index + 1].contractor,
                    inserts |-> Inserts(CurrentCoords, Inputs,
                                        <<dest_offset_x, dest_offset_y>>,
                                        <<date_offset_x, date_offset_y>>)]
              ELSE None
        /\ UNCHANGED <<detectorVars, serviceVars, coordinates_data, current_doc_index,
                       pdf_content, page_pixmap, inputVars, destOffsetVars,
                       dateOffsetVars, preview_label, loads>>

NextEditor ==
    \/ OnDocChanged
    \/ LoadPdfResume
    \/ TextChanged
    \/ DestOffsetChanged
    \/ DateOffsetChanged
    \/ ResizeEvent
    \/ SavePdf

SpecEditor == InitEditor /\ [][NextEditor]_vars

\* The selection of documents and the editing of texts and offsets, without
\* saving.
NextSession ==
    \/ OnDocChanged
    \/ LoadPdfResume
    \/ TextChanged
    \/ DestOffsetChanged
    \/ DateOffsetChanged

SpecSession == InitEditor /\ [][NextSession]_vars

\* The coordinate transforms on their own: the editor started on a file of
\* one document, whose texts and offsets are edited, previewed and saved.
InitTransform == InitEditorOn(TransformDocLists)

NextTransform ==
    \/ TextChanged
    \/ DestOffsetChanged
    \/ DateOffsetChanged
    \/ ResizeEvent
    \/ SavePdf

SpecTransform == InitTransform /\ [][NextTransform]_vars

----------------------------------------------------------------------------
\* PDFFieldEditor: the offset controls and their signals

\* setRange(-200, 200) of every offset spin box and slider.
OFFSET_MIN == 0 - 200
OFFSET_MAX == 200

\* The number of nested setValue calls a cascade is followed for.
MaxCascade == 4

\* setValue of an unbounded widget.
Unbounded(v) == v

\* QSpinBox.setValue and QSlider.setValue bound the value to the range.
Bound(v) ==
    IF v < OFFSET_MIN THEN OFFSET_MIN ELSE IF v > OFFSET_MAX THEN OFFSET_MAX ELSE v

\* The controls of one group: the two spin boxes, the two sliders and the two
\* offset attributes; cut tells that a cascade was not followed to its end.
DestControls ==
    [spin |-> [x |-> dest_x_spin, y |-> dest_y_spin],
     slider |-> [x |-> dest_x_slider, y |-> dest_y_slider],
     offset |-> [x |-> dest_offset_x, y |-> dest_offset_y],
     cut |-> FALSE]
DateControls ==
    [spin |-> [x |-> date_x_spin, y |-> date_y_spin],
     slider |-> [x |-> date_x_slider, y |-> date_y_slider],
     offset |-> [x |-> date_offset_x, y |-> date_offset_y],
     cut |-> FALSE]

\* on_dest_offset_changed, on_date_offset_changed: both attributes are copied
\* from the spin boxes.
on_offset_changed(g) == [g EXCEPT !.offset = g.spin]

\* spin.setValue(v) and slider.setValue(v) with the slots connected to
\* valueChanged, in the order of their connection: a widget whose value does
\* not change emits nothing; the spin box runs on_*_offset_changed and then
\* slider.setValue, the slider runs spin.setValue.
RECURSIVE spin_setValue(_, _, _, _)
RECURSIVE slider_setValue(_, _, _, _)
spin_setValue(g, axis, v, fuel) ==
    IF fuel = 0 THEN [g EXCEPT !.cut = TRUE]
    ELSE IF g.spin[axis] = Bound(v) THEN g
    ELSE slider_setValue(on_offset_changed([g EXCEPT !.spin[axis] = Bound(v)]),
                         axis, Bound(v), fuel - 1)
slider_setValue(g, axis, v, fuel) ==
    IF fuel = 0 THEN [g EXCEPT !.cut = TRUE]
    ELSE IF g.slider[axis] = Bound(v) THEN g
    ELSE spin_setValue([g EXCEPT !.slider[axis] = Bound(v)],
                       axis, Bound(v), fuel - 1)

\* setValue of the widget the user acts on.
widget_setValue(widget, g, axis, v) ==
    IF widget = "spin" THEN spin_setValue(g, axis, v, MaxCascade)
    ELSE slider_setValue(g, axis, v, MaxCascade)

\* The values asked of a widget, within and beyond its range.
Requests(axis) == IF axis = "x" THEN {0, 7, 250} ELSE {0 - 250, 0}

\* The user changes a destination spin box or slider.
DestWidgetChanged ==
    \E widget \in {"spin", "slider"}, axis \in {"x", "y"} :
        \E v \in Requests(axis) :
            LET g == widget_setValue(widget, DestControls, axis, v)
            IN  /\ g # DestControls
                /\ dest_x_spin' = g.spin.x /\ dest_y_spin' = g.spin.y
                /\ dest_x_slider' = g.slider.x /\ dest_y_slider' = g.slider.y
                /\ dest_offset_x' = g.offset.x /\ dest_offset_y' = g.offset.y
                /\ preview_label' =
                      update_preview(preview_label, page_pixmap, CurrentCoords,
                                     Inputs, <<g.offset.x, g.offset.y>>,
                                     <<date_offset_x, date_offset_y>>)
                /\ written' = None
                /\ UNCHANGED <<detectorVars, serviceVars, coordinates_data,
                               current_doc_index, pdf_content, page_pixmap,
                               inputVars, dateOffsetVars, loads>>

\* The user changes a date spin box or slider.
DateWidgetChanged ==
    \E widget \in {"spin", "slider"}, axis \in {"x", "y"} :
        \E v \in Requests(axis) :
            LET g == widget_setValue(widget, DateControls, axis, v)
            IN  /\ g # DateControls
                /\ date_x_spin' = g.spin.x /\ date_y_spin' = g.spin.y
                /\ date_x_slider' = g.slider.x /\ date_y_slider' = g.slider.y
                /\ date_offset_x' = g.offset.x /\ date_offset_y' = g.offset.y
                /\ preview_label' =
                      update_preview(preview_label, page_pixmap, CurrentCoords,
                                     Inputs, <<dest_offset_x, dest_offset_y>>,
                                     <<g.offset.x, g.offset.y>>)
                /\ written' = None
                /\ UNCHANGED <<detectorVars, serviceVars, coordinates_data,
                               current_doc_index, pdf_content, page_pixmap,
                               inputVars, destOffsetVars, loads>>

\* The offset controls changed by the user and reset by the selection of a
\* document.
NextOffsets ==
    \/ DestWidgetChanged
    \/ DateWidgetChanged
    \/ OnDocChanged
    \/ LoadPdfResume

SpecOffsets == InitEditor /\ [][NextOffsets]_vars

----------------------------------------------------------------------------
\* gemini_checker.download_file_from_url

\* A URL as urlparse splits it.
Url(scheme, host, path) == [scheme |-> scheme, host |-> host, path |-> path]

DRIVE == "drive.google.com"
DOCS == "docs.google.com"
LOOPBACK == "127.0.0.1"

\* Paths: of a Drive file, of a Docs link that names a Drive file, any other,
\* and of the download form.
FilePath == "/file/d/abc/view"
LinkPath == "/d/abc?u=drive.google.com"
OtherPath == "/export"
DownloadPath == "/uc?export=download&id=abc"

\* _is_private_ip(hostname): the host is an IP literal of a private,
\* loopback or link-local address.
is_private_ip(hostname) == hostname = LOOPBACK

\* _validate_external_url(url): TRUE when it returns the URL, FALSE when it
\* raises ValueError.  resolves_private is the answer of
\* _is_hostname_resolving_to_private_ip for the host.
validate_external_url(url, resolves_private) ==
    /\ url.scheme = "https"
    /\ url.host # ""
    /\ ~is_private_ip(url.host)
    /\ url.host \in {DRIVE, DOCS}
    /\ ~resolves_private

\* `"drive.google.com" in url` and the search for /d/<id> in the URL.
MentionsDrive(url) == url.host = DRIVE \/ url.path = LinkPath
HasFileId(url) == url.path \in {FilePath, LinkPath}

\* The URL of the first request: the download form of a Drive file.
FirstUrl(url) ==
    IF MentionsDrive(url) /\ HasFileId(url) THEN Url("https", DRIVE, DownloadPath)
    ELSE url

\* max_redirects
MAX_REDIRECTS == 5

\* requests: the status codes of a redirect, and Response.is_redirect /
\* is_permanent_redirect, which need a Location header; the header may be
\* absent, empty or hold a URL.
REDIRECT_STATI == {301, 302, 303, 307, 308}
NoHeader == [absent |-> TRUE]
EmptyHeader == [empty |-> TRUE]
is_redirect(resp) == resp.location # NoHeader /\ resp.status \in REDIRECT_STATI

\* requests.compat.urljoin(current_url, location)
urljoin(base, location) ==
    IF "relative" \in DOMAIN location
    THEN Url(base.scheme, base.host, location.relative)
    ELSE location

\* The URLs download_file_from_url is called on, the Location values and
\* the responses of the servers.
InputUrls ==
    {Url(sc, h, p) : sc \in {"https", "http"},
                     h \in {DRIVE, DOCS, "evil.example", LOOPBACK, ""},
                     p \in {FilePath, LinkPath, OtherPath}}

Locations ==
    {Url("https", DOCS, OtherPath), Url("https", DRIVE, FilePath),
     Url("http", DRIVE, OtherPath), Url("https", "evil.example", OtherPath),
     Url("https", LOOPBACK, OtherPath), [relative |-> OtherPath]}

Responses ==
    {[status |-> 200, location |-> NoHeader], [status |-> 404, location |-> NoHeader],
     [status |-> 302, location |-> NoHeader], [status |-> 302, location |-> EmptyHeader]}
        \cup {[status |-> st, location |-> l] : st \in {301, 302}, l \in Locations}

\* download_file_from_url(url) up to the loop: the URL is validated and
\* turned into its first request.
Download ==
    /\ download_pc = "idle"
    /\ \E url \in InputUrls, resolves_private \in BOOLEAN :
          IF validate_external_url(url, resolves_private)
          THEN /\ validated' = {url}
               /\ current_url' = FirstUrl(url)
               /\ download_pc' = "request"
          ELSE /\ download_pc' = "ValueError"
               /\ UNCHANGED <<validated, current_url>>
    /\ UNCHANGED <<redirects_followed, requested, response>>
    /\ UNCHANGED <<detectorVars, editorVars, geminiVars, sheetVars>>

\* What one iteration of the loop does with the response.
Followed(resp, resolves_private) ==
    IF is_redirect(resp)
    THEN IF redirects_followed >= MAX_REDIRECTS
         THEN [pc |-> "TooManyRedirects", url |-> current_url]
         ELSE IF resp.location = EmptyHeader
         THEN [pc |-> "InvalidURL", url |-> current_url]
         ELSE IF validate_external_url(urljoin(current_url, resp.location),
                                       resolves_private)
         THEN [pc |-> "request", url |-> urljoin(current_url, resp.location)]
         ELSE [pc |-> "ValueError", url |-> current_url]
    ELSE IF resp.status >= 400
         THEN [pc |-> "HTTPError", url |-> current_url]
         ELSE [pc |-> "returned", url |-> current_url]

\* One iteration of `while True`: the request and what follows from its
\* response; requests.get may raise instead of answering.
Request ==
    /\ download_pc = "request"
    /\ requested' = Append(requested, current_url)
    /\ \/ /\ download_pc' = "RequestException"
          /\ UNCHANGED <<current_url, redirects_followed, response, validated>>
       \/ \E resp \in Responses, resolves_private \in BOOLEAN :
             LET f == Followed(resp, resolves_private)
             IN  /\ response' = resp
                 /\ download_pc' = f.pc
                 /\ current_url' = f.url
                 /\ redirects_followed' =
                       IF f.pc = "request" THEN redirects_followed + 1
                       ELSE redirects_followed
                 /\ validated' =
                       IF f.pc = "request" THEN validated \cup {f.url} ELSE validated
    /\ UNCHANGED <<detectorVars, editorVars, geminiVars, sheetVars>>

\* The detector script is not running.
NoDetector ==
    /\ page_size = [width |-> 595, height |-> 842]
    /\ scanned = <<>>
    /\ results = EmptyResults
    /\ pc = "returned"
    /\ all_results = <<>>

InitService == NoDetector /\ NoEditor /\ NoService

SpecDownload == InitService /\ [][Download \/ Request]_vars

----------------------------------------------------------------------------
\* gemini_checker.get_gemini_model in the request handlers of the server,
\* which app.run serves in one thread per request.

\* Number of request handlers running at a time.
MaxHandlers == 3

Handlers == 1..MaxHandlers

\* The instance the n-th call of genai.GenerativeModel returns.
Instance(n) == [instance |-> n]

\* A handler (check_pdf_image, check_spreadsheet, ...) calls
\* get_gemini_model.
HandlerCalls(h) ==
    /\ handler_pc[h] = "idle"
    /\ handler_pc' = [handler_pc EXCEPT ![h] = "test"]
    /\ UNCHANGED <<_model, handler_model, constructed>>
    /\ UNCHANGED <<detectorVars, editorVars, downloadVars, sheetVars>>

\* `if _model is None:`
HandlerTests(h) ==
    /\ handler_pc[h] = "test"
    /\ handler_pc' = [handler_pc EXCEPT ![h] = IF _model = None THEN "construct"
                                                 ELSE "return"]
    /\ UNCHANGED <<_model, handler_model, constructed>>
    /\ UNCHANGED <<detectorVars, editorVars, downloadVars, sheetVars>>

\* get_api_key, genai.configure and `_model = genai.GenerativeModel(...)`;
\* get_api_key raises when no key is found.
HandlerConstructs(h) ==
    /\ handler_pc[h] = "construct"
    /\ \/ /\ constructed' = constructed + 1
          /\ _model' = Instance(constructed + 1)
          /\ handler_pc' = [handler_pc EXCEPT ![h] = "return"]
       \/ /\ handler_pc' = [handler_pc EXCEPT ![h] = "FileNotFoundError"]
          /\ UNCHANGED <<_model, constructed>>
    /\ UNCHANGED handler_model
    /\ UNCHANGED <<detectorVars, editorVars, downloadVars, sheetVars>>

\* `return _model`
HandlerReturns(h) ==
    /\ handler_pc[h] = "return"
    /\ handler_model' = [handler_model EXCEPT ![h] = _model]
    /\ handler_pc' = [handler_pc EXCEPT ![h] = "done"]
    /\ UNCHANGED <<_model, constructed>>
    /\ UNCHANGED <<detectorVars, editorVars, downloadVars, sheetVars>>

InitGemini ==
    /\ NoDetector
    /\ NoEditor
    /\ current_url = None
    /\ redirects_followed = 0
    /\ download_pc = "idle"
    /\ requested = <<>>
    /\ response = None
    /\ validated = {}
    /\ _model = None
    /\ handler_pc = [h \in Handlers |-> "idle"]
    /\ handler_model = [h \in Handlers |-> None]
    /\ constructed = 0
    /\ formulas = <<>>
    /\ entered = <<>>
    /\ pattern_index = 0
    /\ count = 0

NextGemini ==
    \E h \in Handlers :
        \/ HandlerCalls(h)
        \/ HandlerTests(h)
        \/ HandlerConstructs(h)
        \/ HandlerReturns(h)

SpecGemini == InitGemini /\ [][NextGemini]_vars

----------------------------------------------------------------------------
\* spreadsheet_ops.SpreadsheetOps.update_importrange_refs

\* Formulas are texts, held as sequences of characters.  The patterns of
\* update_importrange_refs in the order of its loop, '$B$1', '$B1', 'B$1',
\* 'B1', and its new_ref, 'Link!$A$1'.
PATTERNS ==
    << <<"$", "B", "$", "1">>, <<"$", "B", "1">>, <<"B", "$", "1">>, <<"B", "1">> >>
LINK_A1 == <<"L", "i", "n", "k", "!", "$", "A", "$", "1">>

\* The references that denote cell B1, and references to other cells: B10,
\* B11, $B$12, AB1 and A1.
B1Refs == {PATTERNS[i] : i \in 1..Len(PATTERNS)}
OtherRefs ==
    {<<"B", "1", "0">>, <<"B", "1", "1">>, <<"$", "B", "$", "1", "2">>,
     <<"A", "B", "1">>, <<"A", "1">>}

\* `old in text` of Python.
Contains(old, text) ==
    \E i \in 1..(Len(text) - Len(old) + 1) :
        SubSeq(text, i, i + Len(old) - 1) = old

\* text.replace(old, new) of Python: the occurrences of old, from the left
\* and without overlap.
RECURSIVE str_replace(_, _, _)
str_replace(text, old, new) ==
    IF Len(text) < Len(old) THEN text
    ELSE IF SubSeq(text, 1, Len(old)) = old
         THEN new \o str_replace(SubSeq(text, Len(old) + 1, Len(text)), old, new)
         ELSE <<text[1]>> \o str_replace(Tail(text), old, new)

\* The formula text of a cell whose formula adds up the references refs; a
\* cell without references has no formula.
RECURSIVE Summed(_)
Summed(refs) ==
    IF Len(refs) = 1 THEN refs[1]
    ELSE refs[1] \o <<"+">> \o Summed(Tail(refs))
FormulaText(refs) == IF refs = <<>> THEN <<>> ELSE <<"=">> \o Summed(refs)

\* The sheets of the spreadsheet, one formula cell each, and the formulas a
\* user may have entered there.
SheetTitles == {"Link", "Mokuji", "Data"}
EnteredRefs ==
    {<<>>} \cup {<<r>> : r \in B1Refs \cup OtherRefs}
           \cup {<<b, o>> : b \in B1Refs, o \in OtherRefs}
           \cup {<<o, b>> : o \in {<<"B", "1", "0">>, <<"A", "B", "1">>},
                             b \in {PATTERNS[1], PATTERNS[4]}}

\* One call of find_and_replace_formulas(spreadsheet_id, old_ref, new_ref):
\* the cells it updates and the formulas after its batch update.
UpdatedSheets(sheets, old_ref) ==
    {title \in DOMAIN sheets : title # "Link" /\ Contains(old_ref, sheets[title])}
find_and_replace_formulas(sheets, old_ref, new_ref) ==
    [title \in DOMAIN sheets |->
        IF title \in UpdatedSheets(sheets, old_ref)
        THEN str_replace(sheets[title], old_ref, new_ref)
        ELSE sheets[title]]

\* The spreadsheet before update_importrange_refs is called.
InitSheets ==
    /\ NoDetector
    /\ NoEditor
    /\ current_url = None
    /\ redirects_followed = 0
    /\ download_pc = "idle"
    /\ requested = <<>>
    /\ response = None
    /\ validated = {}
    /\ _model = None
    /\ handler_pc = <<>>
    /\ handler_model = <<>>
    /\ constructed = 0
    /\ entered \in [SheetTitles -> EnteredRefs]
    /\ entered["Link"] \in {<<>>, <<PATTERNS[4]>>}
    /\ formulas = [title \in SheetTitles |-> FormulaText(entered[title])]
    /\ pattern_index = 0
    /\ count = 0

\* One turn of the loop of update_importrange_refs.
ReplacePass ==
    /\ pattern_index < Len(PATTERNS)
    /\ formulas' = find_and_replace_formulas(formulas, PATTERNS[pattern_index + 1], LINK_A1)
    /\ count' = count + Cardinality(UpdatedSheets(formulas, PATTERNS[pattern_index + 1]))
    /\ pattern_index' = pattern_index + 1
    /\ UNCHANGED <<detectorVars, editorVars, downloadVars, geminiVars, entered>>

SpecSheets == InitSheets /\ [][ReplacePass]_vars

----------------------------------------------------------------------------
\* Properties of the detector

\* The token was processed by the loop body (not skipped, not fatal).
Processed(token) == strip(token.text) # <<>> /\ Len(token.vertices) >= 3

\* The token is one from which the code derives a destination region.
IsAddressee(token) == Processed(token) /\ DestInnerMatch(strip(token.text))

\* The token is an era marker.
IsEra(token) == Processed(token) /\ EraMatch(strip(token.text))

IsUnit(token, unit) == Processed(token) /\ strip(token.text) = unit

AddresseeIndexes == {i \in 1..Len(scanned) : IsAddressee(scanned[i])}
EraIndexes == {i \in 1..Len(scanned) : IsEra(scanned[i])}

MinOf(S) == CHOOSE i \in S : \A j \in S : i <= j

\* C4: when more than one token qualifies as an addressee marker, the
\* destination returned is the one derived from the first of them in input
\* order.
C4_FirstAddresseeWins ==
    (pc = "returned" /\ Cardinality(AddresseeIndexes) > 1) =>
        LET first == scanned[MinOf(AddresseeIndexes)]
        IN  /\ results.destination # None
            /\ results.destination.marker = strip(first.text)
            /\ results.destination.marker_coords.normalized.x = first.vertices[1][1]
            /\ results.destination.marker_coords.normalized.y = first.vertices[1][2]

\* C5: once an era marker has opened the date assembly, a later era marker
\* token does not restart it: the recorded year, month and day regions stay.
C5_FirstDateBlockWins ==
    [][(/\ results.date # None
        /\ Len(scanned') = Len(scanned) + 1
        /\ IsEra(scanned'[Len(scanned')]))
            => results'.date = results.date]_vars

\* C6: a token stream without era marker and without addressee marker yields
\* no destination region and no date region, and the detector does not raise.
NoMarker(token) ==
    LET t == strip(token.text)
    IN  ~(contains(t, REIWA) \/ t = REI)
        /\ ~(\/ t \in {DONO, SAMA, ON, CHUU, ONCHUU}
             \/ endswith(t, DONO) \/ endswith(t, SAMA) \/ endswith(t, ONCHUU))

C6_NoMarkersNoRegions ==
    (\A i \in 1..Len(scanned) : NoMarker(scanned[i])) =>
        /\ results.destination = None
        /\ results.date = None
        /\ pc # "raised"

\* The fill regions of a result, as dicts with x, y and, once the region is
\* closed, width.
DateRegions(res) ==
    IF res.date = None THEN {}
    ELSE {res.date.fill_positions.year, res.date.fill_positions.month,
          res.date.fill_positions.day} \ {None}

DestRegions(res) ==
    IF res.destination = None THEN {}
    ELSE {[x |-> res.destination.fill_position.x,
           y |-> res.destination.fill_position.y,
           width |-> res.destination.fill_position.suggested_width]}

BoxInPage(token) ==
    \A i \in 1..Len(token.vertices) :
        /\ token.vertices[i][1] >= 0 /\ token.vertices[i][1] <= One
        /\ token.vertices[i][2] >= 0 /\ token.vertices[i][2] <= One

\* C7: for token boxes inside the page, every fill region has non-negative
\* width and lies within the page: x >= 0, y >= 0, x + width <= 1.
C7_RegionsInsidePage ==
    (\A i \in 1..Len(scanned) : BoxInPage(scanned[i])) =>
        \A r \in DateRegions(results) \cup DestRegions(results) :
            /\ r.x >= 0
            /\ r.y >= 0
            /\ "width" \in DOMAIN r => (r.width >= 0 /\ r.x + r.width <= One)

\* C8: a month region is present only if an era marker, then a nen token and
\* then a gatsu token were observed, and a day region only if in addition a
\* nichi token was observed.
SeenInOrder(units) ==
    \E f \in [1..Len(units) -> 1..Len(scanned)] :
        /\ \A k \in 1..Len(units) : IsUnit(scanned[f[k]], units[k])
        /\ \A k \in 2..Len(units) : f[k - 1] < f[k]
        /\ \E e \in EraIndexes : e < f[1]

C8_MonthDayOnlyAfterUnits ==
    results.date # None =>
        /\ results.date.fill_positions.month # None => SeenInOrder(<<NEN, GATSU>>)
        /\ results.date.fill_positions.day # None => SeenInOrder(<<NEN, GATSU, NICHI>>)

\* C9: for a destination marker at (mx, my) the fill region is
\* x = max(0, mx - 0.20), y = my, width = 0.18; x is never negative and not
\* right of the marker, and the region ends left of a marker at mx >= 0.20.
\* The split marker on, chuu at x = 0.60, y = 0.20 yields x = 0.40,
\* width = 0.18.
C9_DestinationLeftOfMarker ==
    /\ results.destination # None =>
          \E i \in AddresseeIndexes :
              LET mx == scanned[i].vertices[1][1]
                  my == scanned[i].vertices[1][2]
                  fp == results.destination.fill_position
              IN  /\ fp.x = (IF mx - 20 > 0 THEN mx - 20 ELSE 0)
                  /\ fp.y = my
                  /\ fp.suggested_width = 18
                  /\ fp.x >= 0
                  /\ fp.x <= mx
                  /\ mx >= 20 => fp.x + fp.suggested_width < mx
    /\ scanned = <<Prim(ON, Quad(60, 20, 5, 3)), Prim(CHUU, Quad(60, 20, 5, 3))>> =>
          /\ results.destination # None
          /\ results.destination.fill_position.x = 40
          /\ results.destination.fill_position.suggested_width = 18

C9_Witness ==
    /\ pc = "returned"
    /\ scanned = <<Prim(ON, Quad(60, 20, 5, 3)), Prim(CHUU, Quad(60, 20, 5, 3))>>
    /\ results.destination # None
    /\ results.destination.fill_position.x = 40

\* C10: scenario A yields year, month and day regions on the row of the
\* tokens, each region's x greater than the previous region's x + width.
C10_ScenarioAOrdered ==
    (pc = "returned" /\ Len(scanned) = Len(ScenarioATexts)) =>
        /\ results.date # None
        /\ results.date.fill_positions.month # None
        /\ results.date.fill_positions.day # None
        /\ LET fp == results.date.fill_positions
               row == scanned[1].vertices[1][2]
           IN  /\ \A p \in {fp.year, fp.month, fp.day} :
                      "width" \in DOMAIN p /\ p.y = row
               /\ fp.month.x > fp.year.x + fp.year.width
               /\ fp.day.x > fp.month.x + fp.month.width

C10_Witness ==
    /\ pc = "returned"
    /\ Len(scanned) = Len(ScenarioATexts)
    /\ results.date # None
    /\ results.date.fill_positions.day # None
    /\ "width" \in DOMAIN results.date.fill_positions.day

\* The loop has just processed the token `scanned'[Len(scanned')]`.
Scanned == Len(scanned') = Len(scanned) + 1
LastScanned == scanned'[Len(scanned')]

Closed(pos) == "width" \in DOMAIN pos

\* C16: once a nen token has closed the year region, a later nen token
\* changes no date region, and once a gatsu token has closed the month
\* region, a later gatsu token changes no date region.
C16_UnitsOnlyMoveForward ==
    [][(Scanned /\ results.date # None) =>
          /\ (IsUnit(LastScanned, NEN) /\ Closed(results.date.fill_positions.year))
                => results'.date = results.date
          /\ (IsUnit(LastScanned, GATSU) /\ Closed(results.date.fill_positions.month))
                => results'.date = results.date]_vars

\* C17: after a nichi token has closed the day region, every further nichi
\* token leaves the day region (x, y, width) as it is.
C17_DayClosedOnce ==
    [][(/\ Scanned
        /\ results.date # None
        /\ IsUnit(LastScanned, NICHI)
        /\ Closed(results.date.fill_positions.day))
            => results'.date.fill_positions.day = results.date.fill_positions.day]_vars

\* The box of an upright token: its top-left corner and the distance to its
\* top-right corner.
BoxX(token) == token.vertices[1][1]
BoxY(token) == token.vertices[1][2]
BoxW(token) == token.vertices[2][1] - token.vertices[1][1]

Opened(pos, token) ==
    /\ pos # None
    /\ ~Closed(pos)
    /\ pos.x = BoxX(token) + BoxW(token)
    /\ pos.y = BoxY(token)

ClosedAt(pos, old, token) ==
    /\ Closed(pos)
    /\ pos.x = old.x /\ pos.y = old.y
    /\ pos.width = BoxX(token) - old.x

\* C20: an era marker opens the year region at marker.x + marker.width,
\* marker.y without width; a nen token sets year.width = nen.x - year.x and
\* opens the month region at nen.x + nen.width, nen.y; a gatsu token, only if
\* a month region is open, sets month.width = gatsu.x - month.x and opens
\* the day region at gatsu.x + gatsu.width, gatsu.y; a nichi token, only if a
\* day region is open, sets day.width = nichi.x - day.x.
C20_DateRegionGeometry ==
    [][Scanned =>
          LET token == LastScanned
              old == results.date.fill_positions
              new == results'.date.fill_positions
          IN  /\ IsEra(token) =>
                    results'.date # None /\ Opened(new.year, token)
              /\ (IsUnit(token, NEN) /\ results.date # None) =>
                    ClosedAt(new.year, old.year, token) /\ Opened(new.month, token)
              /\ (IsUnit(token, GATSU) /\ results.date # None) =>
                    IF old.month # None
                    THEN ClosedAt(new.month, old.month, token) /\ Opened(new.day, token)
                    ELSE results'.date = results.date
              /\ (IsUnit(token, NICHI) /\ results.date # None) =>
                    IF old.day # None
                    THEN ClosedAt(new.day, old.day, token)
                    ELSE results'.date = results.date
              /\ (~IsEra(token) /\ results.date = None) => results'.date = None]_vars

C20_Witness ==
    /\ pc = "returned"
    /\ scanned = <<Prim(REI, QuadOf(BoxA)), Prim(NEN, QuadOf(BoxC)),
                   Prim(GATSU, QuadOf(BoxC)), Prim(NICHI, QuadOf(BoxC))>>
    /\ results.date.fill_positions.year = [x |-> 15, y |-> 20, width |-> 45]
    /\ results.date.fill_positions.month = [x |-> 100, y |-> 40, width |-> -40]
    /\ results.date.fill_positions.day = [x |-> 100, y |-> 40, width |-> -40]

\* The text is one of the honorific strings or ends with one of them.
Honorific(token_text) ==
    \/ token_text \in {DONO, SAMA, ONCHUU}
    \/ endswith(token_text, DONO)
    \/ endswith(token_text, SAMA)
    \/ endswith(token_text, ONCHUU)

\* C19: a document with a token whose text is an honorific string or ends
\* with one, the unsplit on-chuu included, yields a destination region.
C19_HonorificIsMarker ==
    (/\ pc = "returned"
     /\ \E i \in 1..Len(scanned) :
            Processed(scanned[i]) /\ Honorific(strip(scanned[i].text)))
        => results.destination # None

\* The primitive's trimmed text is not empty.
HasText(token) == strip(token.text) # <<>>

Trimmed(text) == text # <<>> /\ text = strip(text)

\* C21: the token lists of the detection and of the extraction hold only
\* trimmed, non-empty texts, and a primitive of empty or whitespace-only
\* text has no effect on the detection.
C21_EmptyTextDiscarded ==
    /\ \A k \in 1..Len(results.all_tokens) : Trimmed(results.all_tokens[k].text)
    /\ pc # "raised" =>
          results = find_blank_field_coordinates(SelectSeq(scanned, HasText), page_size)
    /\ LET extracted == process_pdf(scanned, page_size)
       IN  \A k \in 1..Len(extracted) : Trimmed(extracted[k].text)

\* A primitive with the minimum number of vertices.
WellFormed(token) == Len(token.vertices) >= 4

\* C13: a primitive of fewer than four vertices is skipped by the token
\* extraction and by the field detection, which go on with the next
\* primitive and do not raise: the extraction yields one token per
\* well-formed primitive, and the detection returns what it returns for the
\* stream without the malformed primitives.
C13_MalformedSkipped ==
    /\ pc # "raised"
    /\ Len(process_pdf(scanned, page_size)) = Len(SelectSeq(scanned, WellFormed))
    /\ results =
          find_blank_field_coordinates(SelectSeq(scanned, WellFormed), page_size)

\* The axis-aligned bounding box of a polygon.
BoundingBox(vertices) ==
    LET xs == [i \in DOMAIN vertices |-> vertices[i][1]]
        ys == [i \in DOMAIN vertices |-> vertices[i][2]]
    IN  [x |-> SeqMin(xs), y |-> SeqMin(ys),
         width |-> SeqMax(xs) - SeqMin(xs), height |-> SeqMax(ys) - SeqMin(ys)]

\* C14: the normalized box of every token, of the extraction and of the
\* detection, is the axis-aligned bounding box of its polygon, hence of
\* non-negative width and height.
C14_BoxIsBoundingBox ==
    /\ LET extracted == process_pdf(scanned, page_size)
           source == SelectSeq(scanned, WellFormed)
       IN  \A k \in 1..Len(extracted) :
               extracted[k].normalized = BoundingBox(source[k].vertices)
    /\ LET source == SelectSeq(scanned, Processed)
       IN  \A k \in 1..Len(results.all_tokens) :
               /\ results.all_tokens[k].normalized = BoundingBox(source[k].vertices)
               /\ results.all_tokens[k].normalized.width >= 0
               /\ results.all_tokens[k].normalized.height >= 0

\* C12: the detector is a function of its token stream: what the scan of a
\* document holds is what a run on the same tokens from a fresh start
\* yields (and it raises exactly when that run raises), whatever documents
\* were scanned before.
C12_DetectorIsPure ==
    /\ pc = "raised" <=> find_blank_field_coordinates(scanned, page_size) = None
    /\ pc # "raised" => results = find_blank_field_coordinates(scanned, page_size)

C12_Witness ==
    /\ pc = "returned"
    /\ Len(all_results) = 1
    /\ all_results[1].coordinates.date # None
    /\ scanned = <<Prim(DONO, QuadOf(BoxA)), Prim(NEN, QuadOf(BoxB))>>
    /\ results.date = None
    /\ results.destination # None

----------------------------------------------------------------------------
\* Properties of the editor

IsDrawing(label) == "fields" \in DOMAIN label

\* A suspended load_pdf returns for a document that is no longer the
\* selected one.
StaleLoadCompletes ==
    /\ loads # <<>>
    /\ loads' = SubSeq(loads, 1, Len(loads) - 1)
    /\ loads[Len(loads)] # current_doc_index

\* C1: when the load of document A completes after document B has been
\* selected and loaded, A's result is discarded: the PDF content and the
\* rendered page of the session stay those of B.
C1_StaleLoadDiscarded ==
    [][(/\ StaleLoadCompletes
        /\ pdf_content = Bytes(current_doc_index)
        /\ page_pixmap = Pixmap(current_doc_index))
            => (pdf_content' = pdf_content /\ page_pixmap' = page_pixmap)]_vars

\* C15: when on_doc_changed has handled the selection of another document,
\* the four texts are empty and the four offsets, widgets and attributes,
\* are 0.
C15_SelectionDiscardsEditState ==
    [][current_doc_index' # current_doc_index =>
          /\ dest_input' = "" /\ year_input' = ""
          /\ month_input' = "" /\ day_input' = ""
          /\ dest_x_spin' = 0 /\ dest_y_spin' = 0
          /\ date_x_spin' = 0 /\ date_y_spin' = 0
          /\ dest_x_slider' = 0 /\ dest_y_slider' = 0
          /\ date_x_slider' = 0 /\ date_y_slider' = 0
          /\ dest_offset_x' = 0 /\ dest_offset_y' = 0
          /\ date_offset_x' = 0 /\ date_offset_y' = 0]_vars

\* Document 1 has just been selected while the page of document 0, which
\* could be edited, is still the one rendered.
C15_Witness ==
    /\ current_doc_index = 1
    /\ loads = <<1>>
    /\ page_pixmap = Pixmap(0)
    /\ preview_label = Message("loading")
    /\ Inputs = NoInputs
    /\ dest_offset_x = 0 /\ dest_offset_y = 0
    /\ date_offset_x = 0 /\ date_offset_y = 0

\* The values the user edits.
EditState ==
    [dest |-> dest_input, year |-> year_input, month |-> month_input,
     day |-> day_input, dest_x |-> dest_offset_x, dest_y |-> dest_offset_y,
     date_x |-> date_offset_x, date_y |-> date_offset_y]

\* A step of a text or offset handler: edit state changes outside
\* on_doc_changed and load_pdf.
EditStep == loads' = loads /\ EditState' # EditState

\* C22: a text edit or offset change leaves the detector's state, the
\* regions of every document, the current index, the PDF content and the
\* rendered page unchanged, and changes exactly one of the edited values.
C22_EditsOnlyRedraw ==
    [][EditStep =>
          /\ UNCHANGED <<detectorVars, coordinates_data, current_doc_index,
                         pdf_content, page_pixmap>>
          /\ Cardinality({k \in DOMAIN EditState : EditState'[k] # EditState[k]}) = 1]_vars

C22_Witness ==
    /\ current_doc_index = 1
    /\ loads = <<>>
    /\ page_pixmap = Pixmap(1)
    /\ IsDrawing(preview_label)
    /\ year_input = "t"
    /\ date_offset_x = 7 /\ date_offset_y = -200

\* C23: once a save has completed for the current document, the session
\* leaves that state only by the selection of a different document: no
\* edit, preview or further save happens for the document.
C23_SavedIsTerminal ==
    [][written # None => current_doc_index' # current_doc_index]_vars

\* The URL passes the checks of _validate_external_url that do not depend on
\* name resolution.
Allowed(url) == validate_external_url(url, FALSE)

\* The status of the response is one of a redirect.
RedirectStatus(resp) == resp # None /\ resp.status \in REDIRECT_STATI

\* C24: every URL requested is a validated one (the first request: the
\* download form of the validated URL), at most MAX_REDIRECTS redirects
\* are followed and the next one raises TooManyRedirects, and a redirect
\* without Location header raises InvalidURL.
C24_DownloadValidatesEveryUrl ==
    /\ \A i \in 1..Len(requested) :
          /\ Allowed(requested[i])
          /\ \E url \in validated : requested[i] \in {url, FirstUrl(url)}
    /\ redirects_followed <= MAX_REDIRECTS
    /\ Len(requested) <= MAX_REDIRECTS + 1
    /\ (Len(requested) = MAX_REDIRECTS + 1 /\ download_pc # "RequestException"
            /\ RedirectStatus(response) /\ response.location \in Locations)
          => download_pc = "TooManyRedirects"
    /\ (RedirectStatus(response) /\ response.location \in {NoHeader, EmptyHeader})
          => download_pc \in {"InvalidURL", "TooManyRedirects", "RequestException"}

\* C25: under every interleaving of the request handlers the model is
\* constructed at most once, and every call returns that one instance.
C25_ModelIsSingleton ==
    /\ constructed <= 1
    /\ \A h1, h2 \in DOMAIN handler_pc :
          (handler_pc[h1] = "done" /\ handler_pc[h2] = "done")
              => handler_model[h1] = handler_model[h2]

\* The load of the selected document comes to its end.
SelectedLoadCompletes ==
    /\ loads # <<>>
    /\ loads' = SubSeq(loads, 1, Len(loads) - 1)
    /\ loads[Len(loads)] = current_doc_index

\* C26: when the load of the selected document has ended, in success or in
\* failure, pdf_content and page_pixmap are those of the selected document
\* or absent.
C26_FailedLoadClearsDocument ==
    [][SelectedLoadCompletes =>
          /\ pdf_content' \in {None, EmptyBytes, Bytes(current_doc_index)}
          /\ page_pixmap' \in {None, Pixmap(current_doc_index)}]_vars

\* The fields that the last save wrote and the preview shows.
SavedAndShown ==
    IF written # None /\ "fields" \in DOMAIN preview_label
    THEN DOMAIN written.inserts \cap DOMAIN preview_label.fields
    ELSE {}

\* C27: for every field, the point at which save_pdf inserts the text, times
\* the render scale, is the point at which update_preview draws the text, on
\* both axes.
C27_TextPointFaithful ==
    \A f \in SavedAndShown :
        \A axis \in 1..2 :
            IntOf(RENDER_SCALE * written.inserts[f].point[axis], Den)
                = preview_label.fields[f].text_at[axis]

\* The text entered for a field, and whether a region was detected for it.
TextOf(f) == Inputs[IF f = "destination" THEN "dest" ELSE f]
RegionExists(f) ==
    IF f = "destination" THEN CurrentCoords.destination # None
    ELSE CurrentCoords.date # None /\ CurrentCoords.date.fill_positions[f] # None

Consistent(g) ==
    /\ ~g.cut
    /\ \A axis \in {"x", "y"} :
          /\ g.spin[axis] = g.slider[axis]
          /\ g.offset[axis] = g.spin[axis]
          /\ OFFSET_MIN <= g.spin[axis] /\ g.spin[axis] <= OFFSET_MAX

\* C29: the offset controls are consistent in every state, and from every
\* state the cascade of every change of a spin box or slider, by the user or
\* by the reset to 0, ends and leaves them consistent.
C29_OffsetControlsConsistent ==
    \A g \in {DestControls, DateControls} :
        /\ Consistent(g)
        /\ \A widget \in {"spin", "slider"}, axis \in {"x", "y"} :
              \A v \in Requests(axis) \cup {0} :
                  Consistent(widget_setValue(widget, g, axis, v))

\* Both groups have been changed, one spin box to the upper limit by a request
\* beyond it, and one slider to the lower limit.
C29_Witness ==
    /\ dest_x_spin = OFFSET_MAX /\ dest_x_slider = OFFSET_MAX
    /\ dest_offset_x = OFFSET_MAX
    /\ date_y_spin = OFFSET_MIN /\ date_y_slider = OFFSET_MIN
    /\ date_offset_y = OFFSET_MIN
    /\ dest_offset_y = 0 /\ date_offset_x = 7

\* The formula text in which exactly the references to cell B1 stand
\* rewritten.
Rewritten(refs) ==
    FormulaText([i \in 1..Len(refs) |->
                    IF refs[i] \in B1Refs THEN LINK_A1 ELSE refs[i]])

\* C30: when update_importrange_refs has returned, every formula outside the
\* Link sheet has its references to cell B1 rewritten to Link!$A$1 and its
\* references to other cells as they were entered, and the Link sheet is as
\* it was.
C30_OnlyB1Rewritten ==
    pattern_index = Len(PATTERNS) =>
        \A title \in SheetTitles :
            formulas[title] = IF title = "Link" THEN FormulaText(entered[title])
                              ELSE Rewritten(entered[title])

\* C2: round trip of the coordinate transform: for every field written by a
\* save, the native position committed is the previewed render position
\* divided by the render scale, on both axes.
C2_RoundTrip ==
    (written # None /\ IsDrawing(preview_label)) =>
        \A f \in DOMAIN written.inserts :
            /\ f \in DOMAIN preview_label.fields
            /\ preview_label.fields[f].x = RENDER_SCALE * written.inserts[f].x
            /\ preview_label.fields[f].y = RENDER_SCALE * written.inserts[f].y

C2_Witness ==
    /\ written # None
    /\ IsDrawing(preview_label)
    /\ DOMAIN written.inserts = {"destination", "year", "month", "day"}
    /\ dest_offset_x = 7 /\ dest_offset_y = -200
    /\ date_offset_x = 7 /\ date_offset_y = -200

\* The detected position and page size of a field of the selected document,
\* and the offsets that apply to it.
RegionOf(f) ==
    IF f = "destination" THEN CurrentCoords.destination.fill_position
    ELSE CurrentCoords.date.fill_positions[f]

PageOf(f) ==
    IF f = "destination" THEN CurrentCoords.destination.marker_coords.page_size
    ELSE CurrentCoords.date.marker_coords.page_size

OffsetOf(f) ==
    IF f = "destination" THEN <<dest_offset_x, dest_offset_y>>
    ELSE <<date_offset_x, date_offset_y>>

\* The rows a field may be committed on: its own, or for month and day the
\* year's row (anomalous-row correction).
RowsOf(f) ==
    {RegionOf(f).y} \cup
        (IF f \in {"month", "day"} THEN {CurrentCoords.date.fill_positions.year.y}
         ELSE {})

\* C3: every field is committed at normalized * page size + offset /
\* render scale on both axes, the division applied uniformly, also to the y
\* of month and day after the row correction.
C3_SaveDividesOffset ==
    written # None =>
        \A f \in DOMAIN written.inserts :
            /\ RENDER_SCALE * written.inserts[f].x =
                  RENDER_SCALE * NormPx(RegionOf(f).x, PageOf(f).width)
                      + Px(OffsetOf(f)[1])
            /\ \E row \in RowsOf(f) :
                  RENDER_SCALE * written.inserts[f].y =
                      RENDER_SCALE * NormPx(row, PageOf(f).height)
                          + Px(OffsetOf(f)[2])

C3_Witness ==
    /\ written # None
    /\ {"month", "day"} \subseteq DOMAIN written.inserts
    /\ CurrentCoords.date.fill_positions.month.y > One
    /\ date_offset_x = 7 /\ date_offset_y = -200
    /\ written.inserts["month"].y # written.inserts["day"].y

----------------------------------------------------------------------------
\* Anomalous-row correction

\* Page fractions (hundredths) a "small threshold" may stand for.
RowThresholds == {1, 5, 10, 25}

Distance(a, b) == IF a > b THEN a - b ELSE b - a

HasDatePart(f) ==
    /\ CurrentCoords.date # None
    /\ CurrentCoords.date.fill_positions[f] # None

\* The preview and the save use, for date part f, the year's row and the
\* part's own detected x.
OnYearRow(f) ==
    LET fp == CurrentCoords.date.fill_positions
        page == CurrentCoords.date.marker_coords.page_size
    IN  /\ IsDrawing(preview_label) =>
              /\ preview_label.fields[f].y =
                    PreviewPos(fp.year.y, page.height, date_offset_y)
              /\ preview_label.fields[f].x =
                    PreviewPos(fp[f].x, page.width, date_offset_x)
        /\ (written # None /\ f \in DOMAIN written.inserts) =>
              /\ written.inserts[f].y = SavePos(fp.year.y, page.height, date_offset_y)
              /\ written.inserts[f].x = SavePos(fp[f].x, page.width, date_offset_x)

\* C11: for some small threshold, a month whose detected y is more than the
\* threshold away from the year region's y is previewed and saved on the
\* year's row, at the month's detected x.
C11_MonthRowCorrected ==
    HasDatePart("month") =>
        \E T \in RowThresholds :
            Distance(CurrentCoords.date.fill_positions.month.y,
                     CurrentCoords.date.fill_positions.year.y) > T
                => OnYearRow("month")

\* C18: for some small threshold, a day whose detected y is more than the
\* threshold away from the year region's y is previewed and saved on the
\* year's row, at the day's detected x.
C18_DayRowCorrected ==
    HasDatePart("day") =>
        \E T \in RowThresholds :
            Distance(CurrentCoords.date.fill_positions.day.y,
                     CurrentCoords.date.fill_positions.year.y) > T
                => OnYearRow("day")

============================================================================
